---- MODULE Spec2Model ----
(***************************************************************************)
(* The scancode encoder of vbox_web_control.py (KEYCODES, SPECIAL_KEYCODES, *)
(* SHIFT_REQUIRED, text_to_scancodes, parse_keys_input) and the            *)
(* /send-keystrokes branch of VirtualBoxHandler.do_GET that consumes it,   *)
(* and run_server, which binds the panel to a port.                        *)
(*                                                                         *)
(* A Python string used as text is a sequence of characters; a character   *)
(* is a one-character TLA+ string, except that the grave accent and three  *)
(* characters outside ASCII are written by their code point ("U+0060",     *)
(* "U+00E9", "U+00C9", "U+212A").  Dictionary keys and scancodes are TLA+  *)
(* strings, as they are Python strings.                                    *)
(***************************************************************************)
EXTENDS Integers, Sequences, FiniteSets, TLC

VARIABLES
    input_str,   \* the string handed to the encoder / the value of "keys"
    pc,          \* "start", or the operation that has run
    codes,       \* the list the encoder returned
    request,     \* the query of the GET /send-keystrokes request
    response,    \* what do_GET answered: status (0: nothing sent) and body
    vbox_calls,  \* argument lists passed to run_vboxmanage_command, in order
    run_result,  \* how the last subprocess.run ended ("none": it did not run)
    threads,     \* per caller: the encoder call it is in, and its locals
    heap,        \* the list objects: reference -> contents
    returns,     \* the calls that returned: function, argument, list returned
    start_port,  \* run_server: its first argument
    max_tries,   \* run_server: its second argument
    loop_i,      \* run_server: the loop variable i
    server_pc,   \* run_server: "idle", "loop", "serving", "returned", "raised"
    bind_log,    \* run_server: the ports HTTPServer was asked to bind, with
                 \* the outcome of each bind, in order
    httpd,       \* run_server: the port of the server object (None: no server)
    raised       \* run_server: the exception that left it ("none": none did)

vars ==
    <<input_str, pc, codes, request, response, vbox_calls, run_result,
      threads, heap, returns,
      start_port, max_tries, loop_i, server_pc, bind_log, httpd, raised>>

(* The variables of the callers that run the encoder side by side.         *)
caller_vars == <<threads, heap, returns>>

(* The variables of the single call and of the request handler.            *)
single_vars == <<input_str, pc, codes, request, response, vbox_calls, run_result>>

(* The variables of run_server.                                            *)
server_vars == <<start_port, max_tries, loop_i, server_pc, bind_log, httpd, raised>>

---------------------------------------------------------------------------
(* Bounds of the explored inputs.                                          *)
MaxLen == 4      \* longest string over SmallAlphabet
MaxRun == 1      \* longest text run around a bracket token
MaxCalls == 2    \* encoder calls begun by the concurrent callers, in all
MaxTries == 4    \* largest max_tries passed to run_server

---------------------------------------------------------------------------
(* The three module-level tables.                                          *)

KEYCODES ==
       ("a" :> "1e") @@ ("b" :> "30") @@ ("c" :> "2e") @@ ("d" :> "20") @@ ("e" :> "12")
    @@ ("f" :> "21") @@ ("g" :> "22") @@ ("h" :> "23") @@ ("i" :> "17") @@ ("j" :> "24")
    @@ ("k" :> "25") @@ ("l" :> "26") @@ ("m" :> "32") @@ ("n" :> "31") @@ ("o" :> "18")
    @@ ("p" :> "19") @@ ("q" :> "10") @@ ("r" :> "13") @@ ("s" :> "1f") @@ ("t" :> "14")
    @@ ("u" :> "16") @@ ("v" :> "2f") @@ ("w" :> "11") @@ ("x" :> "2d") @@ ("y" :> "15")
    @@ ("z" :> "2c") @@ ("0" :> "0b") @@ ("1" :> "02") @@ ("2" :> "03") @@ ("3" :> "04")
    @@ ("4" :> "05") @@ ("5" :> "06") @@ ("6" :> "07") @@ ("7" :> "08") @@ ("8" :> "09")
    @@ ("9" :> "0a") @@ (" " :> "39") @@ ("-" :> "0c") @@ ("=" :> "0d") @@ ("[" :> "1a")
    @@ ("]" :> "1b") @@ ("\\" :> "2b") @@ (";" :> "27") @@ ("'" :> "28") @@ ("U+0060" :> "29")
    @@ ("," :> "33") @@ ("." :> "34") @@ ("/" :> "35") @@ ("!" :> "02") @@ ("@" :> "03")
    @@ ("#" :> "04") @@ ("$" :> "05") @@ ("%" :> "06") @@ ("^" :> "07") @@ ("&" :> "08")
    @@ ("*" :> "09") @@ ("(" :> "0a") @@ (")" :> "0b") @@ ("_" :> "0c") @@ ("+" :> "0d")
    @@ ("{" :> "1a") @@ ("}" :> "1b") @@ ("|" :> "2b") @@ (":" :> "27") @@ ("\"" :> "28")
    @@ ("~" :> "29") @@ ("<" :> "33") @@ (">" :> "34") @@ ("?" :> "35")

SPECIAL_KEYCODES ==
       ("backspace" :> <<"0e", "8e">>) @@ ("insert" :> <<"e0", "52", "e0", "d2">>)
    @@ ("home" :> <<"e0", "47", "e0", "c7">>) @@ ("end" :> <<"e0", "4f", "e0", "cf">>)
    @@ ("pageup" :> <<"e0", "49", "e0", "c9">>) @@ ("pagedown" :> <<"e0", "51", "e0", "d1">>)
    @@ ("left" :> <<"e0", "4b", "e0", "cb">>) @@ ("right" :> <<"e0", "4d", "e0", "cd">>)
    @@ ("up" :> <<"e0", "48", "e0", "c8">>) @@ ("down" :> <<"e0", "50", "e0", "d0">>)
    @@ ("ctrl" :> <<"1d", "9d">>) @@ ("strg" :> <<"1d", "9d">>)
    @@ ("shift" :> <<"2a", "aa">>) @@ ("alt" :> <<"38", "b8">>)
    @@ ("win" :> <<"e0", "5b", "e0", "db">>) @@ ("windows" :> <<"e0", "5b", "e0", "db">>)
    @@ ("esc" :> <<"01", "81">>) @@ ("escape" :> <<"01", "81">>)
    @@ ("enter" :> <<"1c", "9c">>) @@ ("return" :> <<"1c", "9c">>)
    @@ ("tab" :> <<"0f", "8f">>) @@ ("capslock" :> <<"3a", "ba">>)
    @@ ("f1" :> <<"3b", "bb">>) @@ ("f2" :> <<"3c", "bc">>)
    @@ ("f3" :> <<"3d", "bd">>) @@ ("f4" :> <<"3e", "be">>)
    @@ ("f5" :> <<"3f", "bf">>) @@ ("f6" :> <<"40", "c0">>)
    @@ ("f7" :> <<"41", "c1">>) @@ ("f8" :> <<"42", "c2">>)
    @@ ("f9" :> <<"43", "c3">>) @@ ("f10" :> <<"44", "c4">>)
    @@ ("f11" :> <<"57", "d7">>) @@ ("f12" :> <<"58", "d8">>)
    @@ ("del" :> <<"53", "d3">>) @@ ("delete" :> <<"53", "d3">>)

ascii_lowercase ==
    <<"a", "b", "c", "d", "e", "f", "g", "h", "i", "j", "k", "l", "m",
      "n", "o", "p", "q", "r", "s", "t", "u", "v", "w", "x", "y", "z">>

ascii_uppercase ==
    <<"A", "B", "C", "D", "E", "F", "G", "H", "I", "J", "K", "L", "M",
      "N", "O", "P", "Q", "R", "S", "T", "U", "V", "W", "X", "Y", "Z">>

Range(f) == { f[i] : i \in DOMAIN f }

(* str.lower() of one character: A-Z map to a-z; U+00C9 (E acute) maps to  *)
(* U+00E9; U+212A (KELVIN SIGN) maps to the ASCII letter k.                *)
str_lower(ch) ==
    IF \E i \in DOMAIN ascii_uppercase : ascii_uppercase[i] = ch
    THEN ascii_lowercase[CHOOSE i \in DOMAIN ascii_uppercase : ascii_uppercase[i] = ch]
    ELSE IF ch = "U+00C9" THEN "U+00E9"
    ELSE IF ch = "U+212A" THEN "k"
    ELSE ch

(* str.isupper() of one character.                                         *)
str_isupper(ch) == ch \in Range(ascii_uppercase) \cup {"U+00C9", "U+212A"}

SHIFT_REQUIRED ==
       ("!" :> "1") @@ ("@" :> "2") @@ ("#" :> "3") @@ ("$" :> "4") @@ ("%" :> "5") @@ ("^" :> "6")
    @@ ("&" :> "7") @@ ("*" :> "8") @@ ("(" :> "9") @@ (")" :> "0") @@ ("_" :> "-") @@ ("+" :> "=")
    @@ ("{" :> "[") @@ ("}" :> "]") @@ ("|" :> "\\") @@ (":" :> ";") @@ ("\"" :> "28") @@ ("~" :> "29")
    @@ ("<" :> "33") @@ (">" :> "34") @@ ("?" :> "35")
    @@ [ch \in Range(ascii_uppercase) |-> str_lower(ch)]

---------------------------------------------------------------------------
(* Hexadecimal conversions used for break codes.                           *)

HexDigits ==
    <<"0", "1", "2", "3", "4", "5", "6", "7", "8", "9", "a", "b", "c", "d", "e", "f">>

(* The strings of exactly two lowercase hexadecimal digits.                *)
TwoHexDigits == { HexDigits[a] \o HexDigits[b] : a, b \in DOMAIN HexDigits }

(* The byte written by a two-digit lowercase hexadecimal string.           *)
HexValue(s) ==
    CHOOSE n \in 0..255 : HexDigits[(n \div 16) + 1] \o HexDigits[(n % 16) + 1] = s

(* int(sc, 16), for the two-digit scancodes the tables hold.               *)
int16(sc) == HexValue(sc)

(* Variant: format(n, 'X'), uppercase digits.                              *)
HexDigitsUpper ==
    <<"0", "1", "2", "3", "4", "5", "6", "7", "8", "9", "A", "B", "C", "D", "E", "F">>

RECURSIVE format_x_Upper(_)
format_x_Upper(n) ==
    IF n < 16 THEN HexDigitsUpper[n + 1]
    ELSE format_x_Upper(n \div 16) \o HexDigitsUpper[(n % 16) + 1]

(* format(n, 'x'): lowercase hexadecimal, no padding, no prefix.           *)
RECURSIVE format_x(_)
format_x(n) ==
    IF n < 16 THEN HexDigits[n + 1]
    ELSE format_x(n \div 16) \o HexDigits[(n % 16) + 1]

(* 0x80, the distance from a make code to its break code.                  *)
BreakOffset == 128

(* Variant: the break code without the 0x80 offset.                        *)
break_code_NoOffset(sc) == format_x(int16(sc))

(* format(int(sc, 16) + 0x80, 'x')                                         *)
break_code(sc) == format_x(int16(sc) + BreakOffset)

---------------------------------------------------------------------------
(* text_to_scancodes                                                       *)

(* One pass of the loop body: what one character appends to codes.         *)
(* Variant: the Shift release "aa" is left out.                            *)
char_codes_ShiftHeld(ch) ==
    IF ch \in DOMAIN SHIFT_REQUIRED THEN
        LET base == SHIFT_REQUIRED[ch] IN
        IF base \notin DOMAIN KEYCODES THEN <<>>
        ELSE LET sc == KEYCODES[base] IN <<"2a", sc, break_code(sc)>>
    ELSE IF str_isupper(ch) THEN
        LET lower == str_lower(ch) IN
        IF lower \notin DOMAIN KEYCODES THEN <<>>
        ELSE LET sc == KEYCODES[lower] IN <<"2a", sc, break_code(sc)>>
    ELSE IF ch \in DOMAIN KEYCODES THEN
        LET sc == KEYCODES[ch] IN <<sc, break_code(sc)>>
    ELSE <<>>

char_codes(ch) ==
    IF ch \in DOMAIN SHIFT_REQUIRED THEN
        LET base == SHIFT_REQUIRED[ch] IN
        IF base \notin DOMAIN KEYCODES THEN <<>>
        ELSE LET sc == KEYCODES[base] IN <<"2a", sc, break_code(sc), "aa">>
    ELSE IF str_isupper(ch) THEN
        LET lower == str_lower(ch) IN
        IF lower \notin DOMAIN KEYCODES THEN <<>>
        ELSE LET sc == KEYCODES[lower] IN <<"2a", sc, break_code(sc), "aa">>
    ELSE IF ch \in DOMAIN KEYCODES THEN
        LET sc == KEYCODES[ch] IN <<sc, break_code(sc)>>
    ELSE <<>>

RECURSIVE text_to_scancodes(_)
text_to_scancodes(text) ==
    IF text = <<>> THEN <<>>
    ELSE char_codes(Head(text)) \o text_to_scancodes(Tail(text))

---------------------------------------------------------------------------
(* parse_keys_input                                                        *)

(* Where a match of <[^>]+> that starts at position i ends; 0 if none      *)
(* starts there.  [^>]+ is greedy and cannot cross a '>', so a match       *)
(* starts at a '<' whose next character is not '>' and ends at the first   *)
(* '>' after it.                                                           *)
match_end(s, i) ==
    IF /\ s[i] = "<"
       /\ i + 1 <= Len(s)
       /\ s[i + 1] # ">"
       /\ \E j \in (i + 2)..Len(s) : s[j] = ">"
    THEN CHOOSE j \in (i + 2)..Len(s) :
            /\ s[j] = ">"
            /\ \A k \in (i + 2)..(j - 1) : s[k] # ">"
    ELSE 0

(* The start of the leftmost match in s; 0 if the pattern matches nowhere. *)
first_match(s) ==
    IF \E i \in 1..Len(s) : match_end(s, i) # 0
    THEN CHOOSE i \in 1..Len(s) :
            /\ match_end(s, i) # 0
            /\ \A k \in 1..(i - 1) : match_end(s, k) = 0
    ELSE 0

(* re.split(r'(<[^>]+>)', s): the text before the leftmost match, the      *)
(* match itself (the pattern is one capturing group), then the split of    *)
(* what follows the match; empty pieces are kept.                          *)
RECURSIVE re_split(_)
re_split(s) ==
    LET i == first_match(s) IN
    IF i = 0 THEN <<s>>
    ELSE LET j == match_end(s, i) IN
         <<SubSeq(s, 1, i - 1), SubSeq(s, i, j)>> \o re_split(SubSeq(s, j + 1, Len(s)))

(* Variant: only token.endswith(">") is tested.                            *)
is_bracket_token_EndOnly(token) == token[Len(token)] = ">"

(* token.startswith("<") and token.endswith(">"), for a non-empty token    *)
is_bracket_token(token) == token[1] = "<" /\ token[Len(token)] = ">"

(* "".join of the characters of a string.                                  *)
RECURSIVE Join(_)
Join(chars) == IF chars = <<>> THEN "" ELSE Head(chars) \o Join(Tail(chars))

(* token[1:-1]                                                             *)
interior(token) == SubSeq(token, 2, Len(token) - 1)

(* Variant: the name is not lowercased.                                    *)
key_name_NoLower(token) == Join(interior(token))

(* key_name = token[1:-1].lower()                                          *)
key_name(token) ==
    Join([i \in DOMAIN interior(token) |-> str_lower(interior(token)[i])])

(* The modifier tokens.                                                    *)
ModifierNames == {"ctrl", "strg", "shift", "alt", "win", "windows"}

(* Variant: a modifier token emits its make half only.                     *)
token_codes_HeldModifier(token) ==
    IF token = <<>> THEN <<>>
    ELSE IF is_bracket_token(token) THEN
        IF key_name(token) \in DOMAIN SPECIAL_KEYCODES
        THEN LET seq == SPECIAL_KEYCODES[key_name(token)] IN
             IF key_name(token) \in ModifierNames
             THEN SubSeq(seq, 1, Len(seq) \div 2)
             ELSE seq
        ELSE <<>>
    ELSE text_to_scancodes(token)

(* Variant: an unknown bracket token is typed as literal text.             *)
token_codes_UnknownAsText(token) ==
    IF token = <<>> THEN <<>>
    ELSE IF is_bracket_token(token) /\ key_name(token) \in DOMAIN SPECIAL_KEYCODES
         THEN SPECIAL_KEYCODES[key_name(token)]
         ELSE text_to_scancodes(token)

(* One pass of the loop over tokens: what one token appends to codes.      *)
token_codes(token) ==
    IF token = <<>> THEN <<>>
    ELSE IF is_bracket_token(token) THEN
        IF key_name(token) \in DOMAIN SPECIAL_KEYCODES
        THEN SPECIAL_KEYCODES[key_name(token)]
        ELSE <<>>
    ELSE text_to_scancodes(token)

RECURSIVE extend_all(_)
extend_all(tokens) ==
    IF tokens = <<>> THEN <<>>
    ELSE token_codes(Head(tokens)) \o extend_all(Tail(tokens))

parse_keys_input(s) == extend_all(re_split(s))

---------------------------------------------------------------------------
(* run_vboxmanage_command: the command line it executes.                   *)
run_vboxmanage_command(args) == <<"VBoxManage">> \o args

(* How subprocess.run(cmd, check=True, ...) can end: the command exits 0,  *)
(* it exits non-zero (CalledProcessError), or it cannot be started at all  *)
(* (OSError, e.g. no VBoxManage executable).                               *)
RunOutcomes == {"ok", "CalledProcessError", "OSError"}

(* urllib.parse.parse_qs keeps no parameter whose value is blank: "keys"   *)
(* is in params iff the query has it with a non-empty value.               *)
keys_in_params(has_keys, value) == has_keys /\ value # <<>>

(* Variant: the empty list is not rejected.                                *)
not_scancodes_Never(scancodes) == FALSE

(* "if not scancodes": the empty list is the rejection case.               *)
not_scancodes(scancodes) == scancodes = <<>>

(* params.get("vm", ["myVM"])[0]                                           *)
vm_name(req) == IF req.has_vm THEN req.vm ELSE "myVM"

---------------------------------------------------------------------------
(* The inputs explored.                                                    *)

SpecialKeyNames ==
    { <<"b", "a", "c", "k", "s", "p", "a", "c", "e">>,
      <<"i", "n", "s", "e", "r", "t">>,
      <<"h", "o", "m", "e">>,
      <<"e", "n", "d">>,
      <<"p", "a", "g", "e", "u", "p">>,
      <<"p", "a", "g", "e", "d", "o", "w", "n">>,
      <<"l", "e", "f", "t">>,
      <<"r", "i", "g", "h", "t">>,
      <<"u", "p">>,
      <<"d", "o", "w", "n">>,
      <<"c", "t", "r", "l">>,
      <<"s", "t", "r", "g">>,
      <<"s", "h", "i", "f", "t">>,
      <<"a", "l", "t">>,
      <<"w", "i", "n">>,
      <<"w", "i", "n", "d", "o", "w", "s">>,
      <<"e", "s", "c">>,
      <<"e", "s", "c", "a", "p", "e">>,
      <<"e", "n", "t", "e", "r">>,
      <<"r", "e", "t", "u", "r", "n">>,
      <<"t", "a", "b">>,
      <<"c", "a", "p", "s", "l", "o", "c", "k">>,
      <<"f", "1">>,
      <<"f", "2">>,
      <<"f", "3">>,
      <<"f", "4">>,
      <<"f", "5">>,
      <<"f", "6">>,
      <<"f", "7">>,
      <<"f", "8">>,
      <<"f", "9">>,
      <<"f", "1", "0">>,
      <<"f", "1", "1">>,
      <<"f", "1", "2">>,
      <<"d", "e", "l">>,
      <<"d", "e", "l", "e", "t", "e">> }


(* Every character of the tables, and three characters of none of them:    *)
(* U+00E9 (lowercase, not ASCII), U+00C9 (uppercase, lowercases to U+00E9) *)
(* and U+212A (uppercase, lowercases to the ASCII letter k).               *)
CharSet == DOMAIN KEYCODES \cup DOMAIN SHIFT_REQUIRED \cup {"U+00E9", "U+00C9", "U+212A"}

SmallAlphabet == {"u", "P", "?", "<", ">", "U+212A"}

Strings(A, n) == UNION { [1..k -> A] : k \in 0..n }

ascii_upper(ch) ==
    IF \E i \in DOMAIN ascii_lowercase : ascii_lowercase[i] = ch
    THEN ascii_uppercase[CHOOSE i \in DOMAIN ascii_lowercase : ascii_lowercase[i] = ch]
    ELSE ch

(* Every upper/lower-case spelling of a name.                              *)
CaseSpellings(name) ==
    { [i \in DOMAIN name |-> IF i \in S THEN ascii_upper(name[i]) ELSE name[i]] :
        S \in SUBSET DOMAIN name }

Bracket(name) == <<"<">> \o name \o <<">">>

UnknownNames ==
    { <<"u", "n", "k", "n", "o", "w", "n", "k", "e", "y">>, <<"f", "1", "3">>, <<"c", "t", "l">> }

ComposedNames ==
    { n \in SpecialKeyNames : Join(n) \in ModifierNames \cup {"enter", "f5"} }
    \cup { <<"C", "T", "R", "L">>, <<"S", "h", "i", "f", "t">> }
    \cup UnknownNames

Examples ==
    { <<"A", "b">>,
      Bracket(<<"c", "t", "r", "l">>) \o <<"c">>,
      <<"a">> \o Bracket(<<"e", "n", "t", "e", "r">>) \o <<"1">>,
      Bracket(<<"a", "l", "t">>) \o Bracket(<<"t", "a", "b">>),
      <<"<", ">", "a", ">">>,
      <<"h", "i", " ", "!", "U+00E9">> }

Inputs ==
    { <<c>> : c \in CharSet }
    \cup Strings(SmallAlphabet, MaxLen)
    \cup { Bracket(sp) : sp \in UNION { CaseSpellings(n) : n \in SpecialKeyNames } }
    \cup { x \o Bracket(n) \o y :
             x \in Strings(SmallAlphabet, MaxRun),
             n \in ComposedNames,
             y \in Strings(SmallAlphabet, MaxRun) }
    \cup Examples

---------------------------------------------------------------------------
(* The state machine: an input is chosen, then one operation runs on it.   *)

NoRequest == [has_keys |-> FALSE, has_vm |-> FALSE, vm |-> ""]
NoResponse == [status |-> 0, body |-> ""]

(* The callers that may be inside the encoder at the same time.            *)
Callers == {1, 2}

(* The reference to the list object SPECIAL_KEYCODES holds under a name.   *)
table_ref(name) == "SPECIAL_KEYCODES." \o name

TableRefs == { table_ref(name) : name \in DOMAIN SPECIAL_KEYCODES }

(* The heap after the module is loaded: the lists of SPECIAL_KEYCODES.     *)
(* KEYCODES and SHIFT_REQUIRED hold strings, which cannot be mutated, and  *)
(* no statement outside module load writes any of the three dictionaries.  *)
InitialHeap ==
    [ref \in TableRefs |->
        SPECIAL_KEYCODES[CHOOSE name \in DOMAIN SPECIAL_KEYCODES : table_ref(name) = ref]]

IdleThread == [pc |-> "idle", fn |-> "", arg |-> <<>>, rest |-> <<>>, codes |-> ""]

CallersIdle ==
    /\ threads = [t \in Callers |-> IdleThread]
    /\ heap = InitialHeap
    /\ returns = <<>>

(* run_server has not been called: its parameters hold the defaults, the   *)
(* --port default of the command line and the default of max_tries.        *)
DefaultPort == 9091
DefaultMaxTries == 10
None == -1
ServerIdle ==
    /\ start_port = DefaultPort
    /\ max_tries = DefaultMaxTries
    /\ loop_i = 0
    /\ server_pc = "idle"
    /\ bind_log = <<>>
    /\ httpd = None
    /\ raised = "none"

Init ==
    /\ input_str \in Inputs
    /\ pc = "start"
    /\ codes = <<>>
    /\ request = NoRequest
    /\ response = NoResponse
    /\ vbox_calls = <<>>
    /\ run_result = "none"
    /\ CallersIdle
    /\ ServerIdle

call_text_to_scancodes ==
    /\ pc = "start"
    /\ pc' = "text_to_scancodes"
    /\ codes' = text_to_scancodes(input_str)
    /\ UNCHANGED <<input_str, request, response, vbox_calls, run_result>>
    /\ UNCHANGED caller_vars
    /\ UNCHANGED server_vars

call_parse_keys_input ==
    /\ pc = "start"
    /\ pc' = "parse_keys_input"
    /\ codes' = parse_keys_input(input_str)
    /\ UNCHANGED <<input_str, request, response, vbox_calls, run_result>>
    /\ UNCHANGED caller_vars
    /\ UNCHANGED server_vars

(* do_GET for route /send-keystrokes.  The query may carry keys (its value *)
(* is input_str) and vm.  A 400 answer returns before any command runs; an *)
(* OSError from subprocess.run is not caught, so no answer is sent.        *)
do_GET ==
    /\ pc = "start"
    /\ pc' = "do_GET"
    /\ \E has_keys \in BOOLEAN, has_vm \in BOOLEAN :
        LET req == [has_keys |-> has_keys, has_vm |-> has_vm,
                    vm |-> IF has_vm THEN "testVM" ELSE ""]
        IN
        /\ request' = req
        /\ IF ~keys_in_params(has_keys, input_str) THEN
              /\ response' = [status |-> 400,
                              body |-> "Missing required query parameter 'keys'."]
              /\ UNCHANGED <<codes, vbox_calls, run_result>>
           ELSE
              LET scancodes == parse_keys_input(input_str) IN
              /\ codes' = scancodes
              /\ IF not_scancodes(scancodes) THEN
                    /\ response' = [status |-> 400,
                                    body |-> "Unable to convert input string to scancodes."]
                    /\ UNCHANGED <<vbox_calls, run_result>>
                 ELSE
                    /\ vbox_calls' = Append(vbox_calls,
                          run_vboxmanage_command(
                              <<"controlvm", vm_name(req), "keyboardputscancode">> \o scancodes))
                    /\ \E outcome \in RunOutcomes :
                          /\ run_result' = outcome
                          /\ response' =
                              CASE outcome = "ok" ->
                                     [status |-> 200, body |-> "Keystrokes sent"]
                                [] outcome = "CalledProcessError" ->
                                     [status |-> 500, body |-> "Error sending keystrokes"]
                                [] outcome = "OSError" -> NoResponse
    /\ UNCHANGED input_str
    /\ UNCHANGED caller_vars
    /\ UNCHANGED server_vars

Next ==
    \/ call_text_to_scancodes
    \/ call_parse_keys_input
    \/ do_GET

Spec == Init /\ [][Next]_vars

---------------------------------------------------------------------------
(* The encoder called by several callers at once.  A call is a sequence of *)
(* steps, one per pass of its loop; steps of different callers interleave. *)
(* Lists are objects of the heap, so that two references to one list, and  *)
(* a caller that mutates the list it was returned, are visible.            *)

(* The inputs the callers pass.                                            *)
CallInputs ==
    { Bracket(<<"c", "t", "r", "l">>) \o <<"c">>, <<"A", "b">> }

EncoderFunctions == {"text_to_scancodes", "parse_keys_input"}

(* The calls begun so far: those that returned and those under way.       *)
calls_begun == Len(returns) + Cardinality({ t \in Callers : threads[t].pc = "running" })

(* "codes = []": a new list object, under a reference never used before.   *)
new_codes(n) == "codes#" \o ToString(n + 1)

(* The heap once a caller lets go of a list: a list nothing else refers to *)
(* is gone; the lists of SPECIAL_KEYCODES stay.                            *)
released(h, ref) ==
    IF ref \in TableRefs THEN h ELSE [r \in DOMAIN h \ {ref} |-> h[r]]

(* Variant: a fast path that rebinds codes to the table's own list while   *)
(* codes is still empty, instead of copying its elements.                  *)
extend_from_table_Alias(h, codes_ref, src_ref) ==
    IF h[codes_ref] = <<>>
    THEN [codes |-> src_ref, heap |-> h]
    ELSE [codes |-> codes_ref, heap |-> [h EXCEPT ![codes_ref] = @ \o h[src_ref]]]

(* "codes.extend(SPECIAL_KEYCODES[key_name])": the elements of the table's *)
(* list are appended to the list codes refers to; codes is not rebound.    *)
extend_from_table(h, codes_ref, src_ref) ==
    [codes |-> codes_ref, heap |-> [h EXCEPT ![codes_ref] = @ \o h[src_ref]]]

(* "codes.extend(values)" for a list no one else refers to.                *)
extend_with(h, codes_ref, values) ==
    [codes |-> codes_ref, heap |-> [h EXCEPT ![codes_ref] = @ \o values]]

(* One pass of the loop of parse_keys_input on the heap.                   *)
parse_step(h, codes_ref, token) ==
    IF token = <<>> THEN [codes |-> codes_ref, heap |-> h]
    ELSE IF is_bracket_token(token) THEN
        IF key_name(token) \in DOMAIN SPECIAL_KEYCODES
        THEN extend_from_table(h, codes_ref, table_ref(key_name(token)))
        ELSE [codes |-> codes_ref, heap |-> h]
    ELSE extend_with(h, codes_ref, text_to_scancodes(token))

(* A caller enters text_to_scancodes or parse_keys_input.                  *)
begin_call(t) ==
    /\ threads[t].pc = "idle"
    /\ calls_begun < MaxCalls
    /\ \E fn \in EncoderFunctions, arg \in CallInputs :
          LET ref == new_codes(calls_begun) IN
          /\ heap' = heap @@ (ref :> <<>>)
          /\ threads' = [threads EXCEPT ![t] =
                [pc |-> "running", fn |-> fn, arg |-> arg,
                 rest |-> IF fn = "parse_keys_input" THEN re_split(arg) ELSE arg,
                 codes |-> ref]]
    /\ UNCHANGED returns
    /\ UNCHANGED single_vars
    /\ UNCHANGED server_vars

(* One pass of the loop of the call the caller is in.                      *)
loop_step(t) ==
    /\ threads[t].pc = "running"
    /\ threads[t].rest # <<>>
    /\ LET th == threads[t]
           r == IF th.fn = "parse_keys_input"
                THEN parse_step(heap, th.codes, Head(th.rest))
                ELSE extend_with(heap, th.codes, char_codes(Head(th.rest)))
       IN
       /\ heap' = r.heap
       /\ threads' = [threads EXCEPT ![t].rest = Tail(th.rest), ![t].codes = r.codes]
    /\ UNCHANGED returns
    /\ UNCHANGED single_vars
    /\ UNCHANGED server_vars

(* "return codes": the caller now holds the list.                          *)
return_call(t) ==
    /\ threads[t].pc = "running"
    /\ threads[t].rest = <<>>
    /\ returns' = Append(returns,
          [fn |-> threads[t].fn, arg |-> threads[t].arg, out |-> heap[threads[t].codes]])
    /\ threads' = [threads EXCEPT ![t].pc = "returned"]
    /\ UNCHANGED heap
    /\ UNCHANGED single_vars
    /\ UNCHANGED server_vars

(* The caller mutates the list it was returned: list.append or list.clear. *)
caller_mutates(t) ==
    /\ threads[t].pc = "returned"
    /\ \E how \in {"append", "clear"} :
          heap' = [heap EXCEPT ![threads[t].codes] =
                     IF how = "append" THEN Append(@, "ff") ELSE <<>>]
    /\ threads' = [threads EXCEPT ![t].pc = "mutated"]
    /\ UNCHANGED returns
    /\ UNCHANGED single_vars
    /\ UNCHANGED server_vars

(* The caller lets go of the list it was returned.                         *)
caller_drops(t) ==
    /\ threads[t].pc \in {"returned", "mutated"}
    /\ heap' = released(heap, threads[t].codes)
    /\ threads' = [threads EXCEPT ![t] = IdleThread]
    /\ UNCHANGED returns
    /\ UNCHANGED single_vars
    /\ UNCHANGED server_vars

InitCallers ==
    /\ input_str = <<>>
    /\ pc = "start"
    /\ codes = <<>>
    /\ request = NoRequest
    /\ response = NoResponse
    /\ vbox_calls = <<>>
    /\ run_result = "none"
    /\ CallersIdle
    /\ ServerIdle

NextCallers ==
    \/ \E t \in Callers : begin_call(t)
    \/ \E t \in Callers : loop_step(t)
    \/ \E t \in Callers : return_call(t)
    \/ \E t \in Callers : caller_mutates(t)
    \/ \E t \in Callers : caller_drops(t)

SpecCallers == InitCallers /\ [][NextCallers]_vars

---------------------------------------------------------------------------
(* run_server: the loop over the ports.                                    *)

(* The largest port number socket.bind accepts; above it bind raises       *)
(* OverflowError, which is no OSError.                                     *)
PortLimit == 65535

(* How HTTPServer(("", port), VirtualBoxHandler) can end: the server is    *)
(* bound ("ok"), or bind raises: OSError with errno EADDRINUSE, OSError    *)
(* with another errno (EACCES for a privileged port), or OverflowError.    *)
BindOutcomes(port) ==
    IF port > PortLimit THEN {"OverflowError"}
    ELSE {"ok", "EADDRINUSE", "EACCES"}

(* Which exceptions the clause "except OSError as e" catches.              *)
is_OSError(outcome) == outcome \in {"EADDRINUSE", "EACCES"}

is_addr_in_use_AnyErrno(outcome) == TRUE

(* e.errno == socket.errno.EADDRINUSE                                      *)
is_addr_in_use(outcome) == outcome = "EADDRINUSE"

StartPorts == {80, DefaultPort, PortLimit - 1}

(* One pass of the for loop that reaches the HTTPServer constructor: the   *)
(* port is start_port + i; a bound server starts serve_forever, address in *)
(* use goes on to the next i, every other exception leaves run_server.     *)
try_port ==
    /\ server_pc = "loop"
    /\ loop_i < max_tries
    /\ LET port == start_port + loop_i IN
       \E outcome \in BindOutcomes(port) :
          /\ bind_log' = Append(bind_log, [port |-> port, outcome |-> outcome])
          /\ IF outcome = "ok"
             THEN /\ httpd' = port
                  /\ server_pc' = "serving"
                  /\ UNCHANGED <<loop_i, raised>>
             ELSE IF is_OSError(outcome) /\ is_addr_in_use(outcome)
             THEN /\ loop_i' = loop_i + 1
                  /\ UNCHANGED <<server_pc, httpd, raised>>
             ELSE /\ server_pc' = "raised"
                  /\ raised' = outcome
                  /\ UNCHANGED <<loop_i, httpd>>
    /\ UNCHANGED <<start_port, max_tries>>
    /\ UNCHANGED <<single_vars, caller_vars>>

(* The else clause of the for loop: range(max_tries) is used up without a  *)
(* break; the message is printed and run_server returns.                   *)
loop_exhausted ==
    /\ server_pc = "loop"
    /\ loop_i >= max_tries
    /\ server_pc' = "returned"
    /\ UNCHANGED <<start_port, max_tries, loop_i, bind_log, httpd, raised>>
    /\ UNCHANGED <<single_vars, caller_vars>>

(* serve_forever is left by KeyboardInterrupt: server_close, then break.   *)
KeyboardInterrupt ==
    /\ server_pc = "serving"
    /\ server_pc' = "returned"
    /\ UNCHANGED <<start_port, max_tries, loop_i, bind_log, httpd, raised>>
    /\ UNCHANGED <<single_vars, caller_vars>>

(* SIGINT or SIGTERM while serving: the handler the module installs calls  *)
(* exit(0), and SystemExit passes through both except clauses.             *)
signal_handler ==
    /\ server_pc = "serving"
    /\ server_pc' = "raised"
    /\ raised' = "SystemExit"
    /\ UNCHANGED <<start_port, max_tries, loop_i, bind_log, httpd>>
    /\ UNCHANGED <<single_vars, caller_vars>>

(* The state at the call run_server(start_port, max_tries).                *)
InitServer ==
    /\ input_str = <<>>
    /\ pc = "start"
    /\ codes = <<>>
    /\ request = NoRequest
    /\ response = NoResponse
    /\ vbox_calls = <<>>
    /\ run_result = "none"
    /\ CallersIdle
    /\ start_port \in StartPorts
    /\ max_tries \in 0..MaxTries
    /\ loop_i = 0
    /\ server_pc = "loop"
    /\ bind_log = <<>>
    /\ httpd = None
    /\ raised = "none"

NextServer ==
    \/ try_port
    \/ loop_exhausted
    \/ KeyboardInterrupt
    \/ signal_handler

SpecServer == InitServer /\ [][NextServer]_vars

---------------------------------------------------------------------------
(* Vocabulary of the properties.                                           *)

(* The characters that have a KEYCODES or SHIFT_REQUIRED entry.            *)
TableChars == DOMAIN KEYCODES \cup DOMAIN SHIFT_REQUIRED

(* Lowercase letters, digits, space and the unshifted punctuation.         *)
UnshiftedChars ==
    Range(ascii_lowercase)
    \cup {"0", "1", "2", "3", "4", "5", "6", "7", "8", "9", " "}
    \cup {"-", "=", "[", "]", "\\", ";", "'", "U+0060", ",", ".", "/"}

(* The make code of the physical key that types ch.                        *)
BaseMake(ch) ==
    IF ch \in Range(ascii_uppercase) THEN KEYCODES[str_lower(ch)] ELSE KEYCODES[ch]

(* The two-digit string that writes make + 0x80.                           *)
BreakOf(make) == CHOOSE s \in TwoHexDigits : HexValue(s) = HexValue(make) + 128

RemoveAt(s, i) == SubSeq(s, 1, i - 1) \o SubSeq(s, i + 1, Len(s))

(* The outputs of parse_keys_input for each character of s, concatenated.  *)
RECURSIVE PerCharacter(_)
PerCharacter(s) ==
    IF s = <<>> THEN <<>>
    ELSE parse_keys_input(<<Head(s)>>) \o PerCharacter(Tail(s))

IsSpellingOf(sp, name) ==
    /\ Len(sp) = Len(name)
    /\ \A i \in DOMAIN name : sp[i] = name[i] \/ sp[i] = ascii_upper(name[i])

NoBrackets(s) == \A i \in DOMAIN s : s[i] # "<" /\ s[i] # ">"

(* C1: for every uppercase ASCII letter and every key of SHIFT_REQUIRED,   *)
(* text_to_scancodes of that one character is exactly                      *)
(* ["2a", base-make, base-make + 0x80, "aa"].                              *)
C1_ShiftedCharIsWrapped ==
    (pc = "text_to_scancodes" /\ Len(input_str) = 1
        /\ input_str[1] \in Range(ascii_uppercase) \cup DOMAIN SHIFT_REQUIRED)
    => codes = <<"2a", BaseMake(input_str[1]), BreakOf(BaseMake(input_str[1])), "aa">>

(* C2: for every lowercase letter, digit, space and unshifted punctuation  *)
(* character, text_to_scancodes of that one character is exactly           *)
(* [make, break] with make its KEYCODES entry and break = make + 0x80.     *)
C2_UnshiftedCharIsMakeBreak ==
    (pc = "text_to_scancodes" /\ Len(input_str) = 1 /\ input_str[1] \in UnshiftedChars)
    => codes = <<KEYCODES[input_str[1]], BreakOf(KEYCODES[input_str[1]])>>

C2_Witness ==
    pc = "text_to_scancodes" /\ input_str = <<"a">> /\ codes = <<"1e", "9e">>

(* C3: for every name of SPECIAL_KEYCODES and every upper/lower-case       *)
(* spelling of it, parse_keys_input("<" + spelling + ">") is exactly that  *)
(* name's scancode list; "<enter>" and "<ENTER>" give ["1c","9c"], "<f5>"  *)
(* gives ["3f","bf"].                                                      *)
C3_SpecialTokenAnyCase ==
    /\ { Join(n) : n \in SpecialKeyNames } = DOMAIN SPECIAL_KEYCODES
    /\ pc = "parse_keys_input" =>
        /\ \A n \in SpecialKeyNames :
              (/\ Len(input_str) = Len(n) + 2
               /\ input_str[1] = "<"
               /\ input_str[Len(input_str)] = ">"
               /\ IsSpellingOf(interior(input_str), n))
              => codes = SPECIAL_KEYCODES[Join(n)]
        /\ input_str \in { Bracket(<<"e", "n", "t", "e", "r">>),
                           Bracket(<<"E", "N", "T", "E", "R">>) }
              => codes = <<"1c", "9c">>
        /\ input_str = Bracket(<<"f", "5">>) => codes = <<"3f", "bf">>

C3_Witness ==
    /\ pc = "parse_keys_input"
    /\ input_str = Bracket(<<"E", "N", "T", "E", "R">>)
    /\ codes = <<"1c", "9c">>

(* C4: for an input without '<', parse_keys_input returns the encodings of *)
(* its characters concatenated left to right, so the output for x followed *)
(* by y is the output for x followed by the output for y; "Ab" gives       *)
(* ["2a","1e","9e","aa","30","b0"].                                        *)
C4_TextIsConcatenation ==
    (pc = "parse_keys_input" /\ \A i \in DOMAIN input_str : input_str[i] # "<")
    => /\ codes = PerCharacter(input_str)
       /\ \A k \in 0..Len(input_str) :
             codes = parse_keys_input(SubSeq(input_str, 1, k))
                       \o parse_keys_input(SubSeq(input_str, k + 1, Len(input_str)))
       /\ input_str = <<"A", "b">> => codes = <<"2a", "1e", "9e", "aa", "30", "b0">>

C4_Witness ==
    /\ pc = "parse_keys_input"
    /\ input_str = <<"A", "b">>
    /\ codes = <<"2a", "1e", "9e", "aa", "30", "b0">>

(* C5: a character that is in none of the tables contributes no scancodes: *)
(* the output of text_to_scancodes for x + c + y is its output for x + y.  *)
C5_UntabledCharContributesNothing ==
    pc = "text_to_scancodes" =>
        \A i \in DOMAIN input_str :
            input_str[i] \notin TableChars
            => codes = text_to_scancodes(RemoveAt(input_str, i))

(* C6: a bracket token whose lowercased name is not in SPECIAL_KEYCODES    *)
(* contributes nothing: for text runs x and y without '<' or '>',          *)
(* parse_keys_input(x + "<name>" + y) is parse_keys_input(x) followed by   *)
(* parse_keys_input(y).                                                    *)
C6_UnknownTokenDropped ==
    pc = "parse_keys_input" =>
        \A i \in DOMAIN input_str : \A j \in (i + 2)..Len(input_str) :
            (/\ input_str[i] = "<"
             /\ input_str[j] = ">"
             /\ NoBrackets(SubSeq(input_str, 1, i - 1))
             /\ \A k \in (i + 1)..(j - 1) : input_str[k] # ">"
             /\ NoBrackets(SubSeq(input_str, j + 1, Len(input_str)))
             /\ key_name(SubSeq(input_str, i, j)) \notin DOMAIN SPECIAL_KEYCODES)
            => codes = parse_keys_input(SubSeq(input_str, 1, i - 1))
                         \o parse_keys_input(SubSeq(input_str, j + 1, Len(input_str)))

C6_Witness ==
    /\ pc = "parse_keys_input"
    /\ input_str = <<"u">> \o Bracket(<<"u", "n", "k", "n", "o", "w", "n", "k", "e", "y">>) \o <<"P">>
    /\ codes = <<"16", "96", "2a", "19", "99", "aa">>

(* C7: parse_keys_input returns a non-empty list whenever the input holds  *)
(* a recognised bracket token, or, in a segment that is not a match of the *)
(* bracket pattern, a character that text_to_scancodes encodes.            *)
C7_EmptyOnlyIfNothingEncodable ==
    pc = "parse_keys_input" =>
        LET segments == re_split(input_str) IN
        (\/ \E k \in DOMAIN segments :
                /\ k % 2 = 0
                /\ key_name(segments[k]) \in DOMAIN SPECIAL_KEYCODES
         \/ \E k \in DOMAIN segments :
                /\ k % 2 = 1
                /\ \E i \in DOMAIN segments[k] :
                       text_to_scancodes(<<segments[k][i]>>) # <<>>)
        => codes # <<>>

(* C8: a /send-keystrokes request whose keys value translates to the empty *)
(* list (the empty string included) is answered 400 and no command runs.   *)
C8_EmptyTranslationRejected ==
    (pc = "do_GET" /\ request.has_keys /\ parse_keys_input(input_str) = <<>>)
    => response.status = 400 /\ vbox_calls = <<>>

C8_Witness ==
    /\ pc = "do_GET"
    /\ request.has_keys
    /\ input_str = Bracket(<<"u", "n", "k", "n", "o", "w", "n", "k", "e", "y">>)
    /\ response = [status |-> 400, body |-> "Unable to convert input string to scancodes."]
    /\ vbox_calls = <<>>

(* C9: every element of the list parse_keys_input returns is a string of   *)
(* exactly two lowercase hexadecimal digits.                               *)
C9_TwoLowercaseHexDigits ==
    pc = "parse_keys_input" => \A i \in DOMAIN codes : codes[i] \in TwoHexDigits

C9_Witness ==
    pc = "parse_keys_input" /\ input_str = <<"1">> /\ codes = <<"02", "82">>

(* C10: when a modifier token is followed by further input, the output is  *)
(* the modifier's make and break codes followed by the output for what     *)
(* follows; "<ctrl>c" gives ["1d","9d","2e","ae"].                         *)
C10_ModifierReleasedBeforeNext ==
    pc = "parse_keys_input" =>
        /\ \A j \in 3..(Len(input_str) - 1) :
              (/\ input_str[1] = "<"
               /\ input_str[j] = ">"
               /\ key_name(SubSeq(input_str, 1, j)) \in ModifierNames)
              => codes = SPECIAL_KEYCODES[key_name(SubSeq(input_str, 1, j))]
                           \o parse_keys_input(SubSeq(input_str, j + 1, Len(input_str)))
        /\ input_str = Bracket(<<"c", "t", "r", "l">>) \o <<"c">>
              => codes = <<"1d", "9d", "2e", "ae">>

C10_Witness ==
    /\ pc = "parse_keys_input"
    /\ input_str = Bracket(<<"c", "t", "r", "l">>) \o <<"c">>
    /\ codes = <<"1d", "9d", "2e", "ae">>

(* C11: after any interleaving of calls of text_to_scancodes and           *)
(* parse_keys_input by concurrent callers, who may mutate the lists they   *)
(* were returned, the lists of SPECIAL_KEYCODES are as they were loaded,   *)
(* and calls with the same input returned the same list, in the same order *)
(* (the list the function computes when it runs alone).                    *)
C11_StatelessDeterministic ==
    /\ \A name \in DOMAIN SPECIAL_KEYCODES :
          heap[table_ref(name)] = SPECIAL_KEYCODES[name]
    /\ \A i, j \in DOMAIN returns :
          (returns[i].fn = returns[j].fn /\ returns[i].arg = returns[j].arg)
          => returns[i].out = returns[j].out
    /\ \A i \in DOMAIN returns :
          returns[i].out =
              IF returns[i].fn = "parse_keys_input"
              THEN parse_keys_input(returns[i].arg)
              ELSE text_to_scancodes(returns[i].arg)

(* Two calls of parse_keys_input("<ctrl>c") by different callers have      *)
(* returned the same list, and the first caller has mutated its own.       *)
C11_Witness ==
    /\ Len(returns) = 2
    /\ returns[1].fn = "parse_keys_input"
    /\ returns[1] = returns[2]
    /\ returns[1].out = <<"1d", "9d", "2e", "ae">>
    /\ \E t \in Callers :
          /\ threads[t].pc = "mutated"
          /\ heap[threads[t].codes] = <<"1d", "9d", "2e", "ae", "ff">>
    /\ \E t \in Callers : threads[t].pc = "returned"

(* C12: a /send-keystrokes request whose keys value translates to a       *)
(* non-empty list runs the external command exactly once, with controlvm,  *)
(* the VM name, keyboardputscancode and then the scancodes in the order    *)
(* they were returned, and is answered 200 if the command succeeds and 500 *)
(* if it fails.                                                            *)
C12_OneCommandThen200Or500 ==
    (pc = "do_GET" /\ request.has_keys /\ parse_keys_input(input_str) # <<>>)
    => /\ vbox_calls =
            << <<"VBoxManage", "controlvm",
                 IF request.has_vm THEN request.vm ELSE "myVM",
                 "keyboardputscancode">> \o parse_keys_input(input_str) >>
       /\ run_result = "ok" => response.status = 200
       /\ run_result # "ok" => response.status = 500

(* A keyboard that receives scancodes in order.  "e0" marks the next byte  *)
(* as a key of the extended set; a byte below 0x80 presses its key; a byte *)
(* from 0x80 releases the key whose make code is the byte minus 0x80.  The *)
(* replay is sound if no released key was up; it ends with the keys still  *)
(* down, and with extended set when the last byte was an "e0".             *)
RECURSIVE Replay(_, _, _)
Replay(bytes, down, extended) ==
    IF bytes = <<>> THEN [sound |-> TRUE, down |-> down, extended |-> extended]
    ELSE IF Head(bytes) \notin TwoHexDigits
         THEN [sound |-> FALSE, down |-> down, extended |-> extended]
    ELSE IF Head(bytes) = "e0" THEN Replay(Tail(bytes), down, TRUE)
    ELSE LET byte == HexValue(Head(bytes))
             key == <<extended, byte % 128>>
         IN
         IF byte < 128 THEN Replay(Tail(bytes), down \cup {key}, FALSE)
         ELSE IF key \in down THEN Replay(Tail(bytes), down \ {key}, FALSE)
         ELSE [sound |-> FALSE, down |-> down, extended |-> extended]

CompleteTaps(bytes) ==
    LET end == Replay(bytes, {}, FALSE) IN
    end.sound /\ end.down = {} /\ ~end.extended

(* C13: replaying any output of parse_keys_input never releases a key that *)
(* is up and leaves no key down; every SPECIAL_KEYCODES entry is either    *)
(* [m, m+0x80] or ["e0", m, "e0", m+0x80] for a make code m.               *)
(* The entry of a name is checked in the states where a token of that     *)
(* name was parsed; Inputs holds a token for every name of the table.      *)
IsTapEntry(entry) ==
    \/ /\ Len(entry) = 2
       /\ entry[1] # "e0" /\ HexValue(entry[1]) < 128
       /\ HexValue(entry[2]) = HexValue(entry[1]) + 128
    \/ /\ Len(entry) = 4
       /\ entry[1] = "e0" /\ entry[3] = "e0"
       /\ HexValue(entry[2]) < 128
       /\ HexValue(entry[4]) = HexValue(entry[2]) + 128

C13_OutputIsCompleteTaps ==
    pc = "parse_keys_input" =>
        /\ CompleteTaps(codes)
        /\ \A n \in SpecialKeyNames :
              input_str = Bracket(n) => IsTapEntry(SPECIAL_KEYCODES[Join(n)])

C13_Witness ==
    /\ pc = "parse_keys_input"
    /\ input_str = <<"P">> \o Bracket(<<"w", "i", "n">>) \o <<"u">>
    /\ codes = <<"2a", "19", "99", "aa", "e0", "5b", "e0", "db", "16", "96">>

(* What the segments of re.split contribute when every segment that is   *)
(* not a match of the bracket pattern (the odd positions) is passed to     *)
(* text_to_scancodes, and every match (the even positions) is looked up.   *)
RECURSIVE SegmentCodes(_, _)
SegmentCodes(segments, k) ==
    IF k > Len(segments) THEN <<>>
    ELSE (IF k % 2 = 1 THEN text_to_scancodes(segments[k])
          ELSE IF key_name(segments[k]) \in DOMAIN SPECIAL_KEYCODES
               THEN SPECIAL_KEYCODES[key_name(segments[k])]
               ELSE <<>>)
         \o SegmentCodes(segments, k + 1)

(* C14: every segment of the input that is not a match of the bracket      *)
(* pattern is passed to text_to_scancodes, so each encodable character     *)
(* outside the matches contributes its scancodes to the output.            *)
C14_TextOutsideTokensKept ==
    pc = "parse_keys_input" => codes = SegmentCodes(re_split(input_str), 1)

====
